---- MODULE Spec2Model ----
(***************************************************************************)
(* Rolling z-score anomaly detector (src/anomaly_detector.py).             *)
(*                                                                         *)
(* ZScoreAnomalyDetector keeps a deque(maxlen=window_size) of the most     *)
(* recent samples; detect(new_value) appends, waits until the window is    *)
(* full, and then compares abs((new_value - mean) / std_dev) with the      *)
(* threshold, where mean and std_dev are numpy's np.mean and np.std of the *)
(* window.                                                                 *)
(*                                                                         *)
(* numpy computes in IEEE-754 binary floating point, rounding every        *)
(* operation to nearest, ties to even.  The model keeps that arithmetic,   *)
(* operation by operation and in numpy's order of evaluation, with a       *)
(* significand of Prec bits instead of binary64's 53 and an unbounded      *)
(* exponent (no overflow, underflow or subnormals, which the sample        *)
(* ranges used here are far from).  A finite float is the pair <<m, e>>,   *)
(* standing for m * 2^e, with m odd (or <<0, 0>> for zero), |m| < 2^Prec.  *)
(*                                                                         *)
(* real_time_plot (src/visualization.py) drives one detector from the      *)
(* generator of src/data_stream.py, one sample per animation frame.        *)
(***************************************************************************)
EXTENDS Integers, Sequences, FiniteSets

\* Bits of the significand of the floating-point format.
Prec == 5

----------------------------------------------------------------------------
\* Binary floating point, round to nearest, ties to even.

Pow2(n) == IF n <= 0 THEN 1 ELSE 2 ^ n

RECURSIVE BitLen(_)
BitLen(a) == IF a <= 0 THEN 0 ELSE 1 + BitLen(a \div 2)

IntAbs(n) == IF n < 0 THEN -n ELSE n

Sign(n) == IF n < 0 THEN -1 ELSE IF n > 0 THEN 1 ELSE 0

Zero == <<0, 0>>

\* The unique representation of m * 2^e: m odd, or <<0, 0>>.
RECURSIVE Canon(_, _)
Canon(m, e) ==
    IF m = 0 THEN Zero
    ELSE IF m % 2 = 0 THEN Canon(m \div 2, e + 1)
    ELSE <<m, e>>

\* The float nearest to the real number r with sign s and
\* a * 2^k <= |r| < (a + 1) * 2^k, where |r| = a * 2^k iff ~sticky.
Round(s, a, k, sticky) ==
    LET sh   == BitLen(a) - Prec
        q    == a \div Pow2(sh)
        r    == a % Pow2(sh)
        half == Pow2(sh - 1)
        up   == \/ r > half
                \/ r = half /\ sticky
                \/ r = half /\ q % 2 = 1
    IN  IF sh <= 0 THEN Canon(s * a, k)
        ELSE Canon(s * (IF up THEN q + 1 ELSE q), k + sh)

FromInt(n) == Round(Sign(n), IntAbs(n), 0, FALSE)

\* The position of the leading bit of a non-zero float.
Top(a) == a[2] + BitLen(IntAbs(a[1]))

FlNeg(a) == <<-a[1], a[2]>>

FlAbs(a) == <<IntAbs(a[1]), a[2]>>

\* The exact sum of two floats as an integer multiple of 2^e, e the smaller
\* exponent.
SumNumerator(a, b) ==
    LET e == IF a[2] < b[2] THEN a[2] ELSE b[2]
    IN  a[1] * Pow2(a[2] - e) + b[1] * Pow2(b[2] - e)

\* a + b.  An operand below a quarter of the other's last place does not
\* change the rounded sum.
FlAdd(a, b) ==
    IF a = Zero THEN b
    ELSE IF b = Zero THEN a
    ELSE IF Top(a) - Top(b) > Prec + 2 THEN a
    ELSE IF Top(b) - Top(a) > Prec + 2 THEN b
    ELSE LET e == IF a[2] < b[2] THEN a[2] ELSE b[2]
             n == SumNumerator(a, b)
         IN  Round(Sign(n), IntAbs(n), e, FALSE)

FlSub(a, b) == FlAdd(a, FlNeg(b))

FlMul(a, b) ==
    Round(Sign(a[1]) * Sign(b[1]), IntAbs(a[1]) * IntAbs(b[1]), a[2] + b[2], FALSE)

\* The numerator of a / b scaled so that the integer quotient has more than
\* Prec + 1 bits.
DivScale == 2 * Prec + 2

\* a / b for b # 0.
FlDiv(a, b) ==
    LET n == IntAbs(a[1]) * Pow2(DivScale)
        d == IntAbs(b[1])
    IN  IF a = Zero THEN Zero
        ELSE Round(Sign(a[1]) * Sign(b[1]), n \div d, a[2] - b[2] - DivScale,
                   n % d # 0)

\* The integer square root of n, found bit by bit from 2^b downwards.
RECURSIVE ISqrtFrom(_, _, _)
ISqrtFrom(n, r, b) ==
    IF b < 0 THEN r
    ELSE IF (r + Pow2(b)) * (r + Pow2(b)) <= n
         THEN ISqrtFrom(n, r + Pow2(b), b - 1)
         ELSE ISqrtFrom(n, r, b - 1)

ISqrt(n) == ISqrtFrom(n, 0, BitLen(n) \div 2)

\* The radicand m * 2^e rewritten as M * 2^(2j) with M of more than
\* 2 * Prec + 1 bits.
SqrtShift(a) == DivScale + ((a[2] - DivScale) % 2)

\* sqrt(a) for a >= 0.
FlSqrt(a) ==
    LET t    == SqrtShift(a)
        M    == a[1] * Pow2(t)
        root == ISqrt(M)
    IN  IF a = Zero THEN Zero
        ELSE Round(1, root, (a[2] - t) \div 2, root * root # M)

\* a < b.
FlLess(a, b) == SumNumerator(a, FlNeg(b)) < 0

----------------------------------------------------------------------------
\* numpy's reductions over the window (src/anomaly_detector.py, lines 43-44).

\* Accumulation from left to right, from acc, of xs[i], xs[i + 1], ...
RECURSIVE NpSumFrom(_, _, _)
NpSumFrom(xs, acc, i) ==
    IF i > Len(xs) THEN acc ELSE NpSumFrom(xs, FlAdd(acc, xs[i]), i + 1)

\* One of the eight accumulators of the unrolled loop: acc plus xs[i],
\* xs[i + 8], ... up to position last.
RECURSIVE PairwiseLane(_, _, _, _)
PairwiseLane(xs, acc, i, last) ==
    IF i > last THEN acc ELSE PairwiseLane(xs, FlAdd(acc, xs[i]), i + 8, last)

\* np.add.reduce over 8 to 128 elements: eight interleaved accumulators
\* over the whole blocks of eight, added up as a tree, then the remaining
\* elements from left to right.
UnrolledSum(xs) ==
    LET full == 8 * (Len(xs) \div 8)
        r    == [j \in 1..8 |-> PairwiseLane(xs, xs[j], j + 8, full)]
        res  == FlAdd(FlAdd(FlAdd(r[1], r[2]), FlAdd(r[3], r[4])),
                      FlAdd(FlAdd(r[5], r[6]), FlAdd(r[7], r[8])))
    IN  NpSumFrom(xs, res, full + 1)

\* np.add.reduce of a float64 array of at most 128 elements: from left to
\* right when there are fewer than 8, unrolled otherwise.
NpSum(xs) == IF Len(xs) < 8 THEN NpSumFrom(xs, Zero, 1) ELSE UnrolledSum(xs)

\* The window as the float64 array numpy builds from the deque.
AsArray(win) == [i \in 1..Len(win) |-> FromInt(win[i])]

\* The divisor of the variance: np.std's default ddof = 0, the population
\* standard deviation.
StdDivisor(n) == n

\* np.mean of a non-empty array: the sum divided by the count.
NpMean(xs) == FlDiv(NpSum(xs), FromInt(Len(xs)))

\* x = arr - arrmean; x = x * x: each difference and each product rounded.
SquaredDeviations(xs, arrmean) ==
    [i \in 1..Len(xs) |-> LET d == FlSub(xs[i], arrmean) IN FlMul(d, d)]

\* The mean of the squared deviations from the mean.
NpVar(xs) ==
    LET arrmean == NpMean(xs)
    IN  FlDiv(NpSum(SquaredDeviations(xs, arrmean)), FromInt(StdDivisor(Len(xs))))

\* np.std of a non-empty array: the square root of the mean of the squared
\* deviations from the mean.
NpStd(xs) == FlSqrt(NpVar(xs))

----------------------------------------------------------------------------
\* The detector.

\* The detector objects of the program.
Detectors == {1, 2}

\* A list that is never trimmed.
DequeAppendUnbounded(win, cap, new_value) == Append(win, new_value)

\* collections.deque.append on a deque of the given maxlen: the oldest
\* element is discarded when the deque is full; a deque of maxlen 0 stays
\* empty.
DequeAppend(win, cap, new_value) ==
    IF cap = 0 THEN <<>>
    ELSE IF Len(win) >= cap THEN Append(Tail(win), new_value)
    ELSE Append(win, new_value)

\* The fullness test off by one.
InsufficientOffByOne(win, size) == Len(win) < size - 1

\* The fullness test passed only by a window longer than window_size.
InsufficientInclusive(win, size) == Len(win) <= size

\* "Wait until the window is full".
Insufficient(win, size) == Len(win) < size

\* z_score = (new_value - mean) / std_dev, for std_dev # 0.
ZScore(new_value, mean, std_dev) == FlDiv(FlSub(FromInt(new_value), mean), std_dev)

\* z_score >= threshold in magnitude.
ExceedsOrEqual(z_score, t) == ~FlLess(FlAbs(z_score), t)

\* The comparison the wrong way round.
ExceedsInverted(z_score, t) == FlLess(FlAbs(z_score), t)

\* abs(z_score) > self.threshold.
Exceeds(z_score, t) == FlLess(t, FlAbs(z_score))

\* A detect that measures new_value against the samples before it: mean and
\* standard deviation of the window without its newest element.
ClassifyAgainstPrevious(win, size, t, new_value) ==
    LET previous == IF Len(win) = 0 THEN <<>> ELSE SubSeq(win, 1, Len(win) - 1)
        mean     == NpMean(AsArray(previous))
        std_dev  == NpStd(AsArray(previous))
    IN  IF Insufficient(win, size) THEN FALSE
        ELSE IF Len(previous) = 0 THEN FALSE
        ELSE IF std_dev = Zero THEN FALSE
        ELSE Exceeds(ZScore(new_value, mean, std_dev), t)

\* What detect returns once new_value is in the window.  With window_size 0
\* the window is empty and full at once: np.mean and np.std of an empty
\* array are NaN, NaN == 0 is false and abs(NaN) > threshold is false.
Classify(win, size, t, new_value) ==
    LET mean    == NpMean(AsArray(win))
        std_dev == NpStd(AsArray(win))
    IN  IF Insufficient(win, size) THEN FALSE
        ELSE IF Len(win) = 0 THEN FALSE
        ELSE IF std_dev = Zero THEN FALSE
        ELSE Exceeds(ZScore(new_value, mean, std_dev), t)

\* One deque shared by every instance (a class attribute).
StoreWindowShared(windows, i, win) == [j \in DOMAIN windows |-> win]

\* self.data_window is an attribute of the instance: binding the window of
\* detector i leaves the windows of the others alone.
StoreWindow(windows, i, win) == [windows EXCEPT ![i] = win]

VARIABLES
    status,        \* "none": not constructed; "live"; "failed": __init__ raised
    window_size,   \* self.window_size
    threshold,     \* self.threshold, a float
    maxlen,        \* self.data_window.maxlen
    data_window,   \* self.data_window, oldest sample first
    fed,           \* history: the samples passed to detect, in call order
    outs,          \* history: the booleans detect returned, in call order
    data_stream,   \* the generator: "none", "suspended" or "finished"
    yielded,       \* history: the samples the generator has yielded
    frame_seq,     \* the next frame the animation passes to update
    x_data,        \* the lists real_time_plot draws from
    y_data,
    anomalies_x,
    anomalies_y

\* The state of real_time_plot.
plot_vars == <<data_stream, yielded, frame_seq, x_data, y_data, anomalies_x, anomalies_y>>

vars == <<status, window_size, threshold, maxlen, data_window, fed, outs, plot_vars>>

Init ==
    /\ status = [i \in Detectors |-> "none"]
    /\ window_size = [i \in Detectors |-> 0]
    /\ threshold = [i \in Detectors |-> Zero]
    /\ maxlen = [i \in Detectors |-> 0]
    /\ data_window = [i \in Detectors |-> <<>>]
    /\ fed = [i \in Detectors |-> <<>>]
    /\ outs = [i \in Detectors |-> <<>>]
    /\ data_stream = "none"
    /\ yielded = <<>>
    /\ frame_seq = 0
    /\ x_data = <<>>
    /\ y_data = <<>>
    /\ anomalies_x = <<>>
    /\ anomalies_y = <<>>

\* ZScoreAnomalyDetector(size, t).  No argument is checked; the only failure
\* is deque's ValueError for a negative maxlen.
Construct(i, size, t) ==
    /\ status[i] = "none"
    /\ status' = [status EXCEPT ![i] = IF size < 0 THEN "failed" ELSE "live"]
    /\ window_size' = [window_size EXCEPT ![i] = size]
    /\ threshold' = [threshold EXCEPT ![i] = t]
    /\ maxlen' = [maxlen EXCEPT ![i] = IF size < 0 THEN 0 ELSE size]
    /\ UNCHANGED <<data_window, fed, outs>>

\* A detect that also writes the length of its window back to window_size.
DetectResizing(i, new_value) ==
    /\ status[i] = "live"
    /\ LET win == DequeAppend(data_window[i], maxlen[i], new_value)
       IN  /\ data_window' = StoreWindow(data_window, i, win)
           /\ window_size' = [window_size EXCEPT ![i] = Len(win)]
           /\ outs' = [outs EXCEPT ![i] =
                         Append(@, Classify(win, window_size[i], threshold[i], new_value))]
    /\ fed' = [fed EXCEPT ![i] = Append(@, new_value)]
    /\ UNCHANGED <<status, threshold, maxlen>>

\* detector.detect(new_value).
Detect(i, new_value) ==
    /\ status[i] = "live"
    /\ LET win == DequeAppend(data_window[i], maxlen[i], new_value)
       IN  /\ data_window' = StoreWindow(data_window, i, win)
           /\ outs' = [outs EXCEPT ![i] =
                         Append(@, Classify(win, window_size[i], threshold[i], new_value))]
    /\ fed' = [fed EXCEPT ![i] = Append(@, new_value)]
    /\ UNCHANGED <<status, window_size, threshold, maxlen>>

----------------------------------------------------------------------------
\* Two detectors driven by interleaved calls, short streams.

MaxWindow == 2
MaxCalls == 4

WindowSizes == -1 .. MaxWindow
Thresholds == {Zero, <<1, -1>>, <<1, 0>>, <<3, 0>>}    \* 0.0, 0.5, 1.0, 3.0
Samples == {1, 10}

TotalCalls == Len(fed[1]) + Len(fed[2])

Next ==
    \/ \E i \in Detectors, size \in WindowSizes, t \in Thresholds :
          Construct(i, size, t) /\ UNCHANGED plot_vars
    \/ \E i \in Detectors, new_value \in Samples :
          TotalCalls < MaxCalls /\ Detect(i, new_value) /\ UNCHANGED plot_vars

Spec == Init /\ [][Next]_vars

\* One detector on one long stream.

MaxStream == 6

StreamWindowSizes == {3, 5}
StreamThresholds == {<<-1, 0>>, <<1, -1>>, <<3, 0>>}    \* -1.0, 0.5, 3.0
\* 26 * 2^-8 is the 5-bit float nearest to 0.1.
StreamSamples == {1, 6, 26}

NextStream ==
    \/ \E size \in StreamWindowSizes, t \in StreamThresholds :
          Construct(1, size, t) /\ UNCHANGED plot_vars
    \/ \E new_value \in StreamSamples :
          Len(fed[1]) < MaxStream /\ Detect(1, new_value) /\ UNCHANGED plot_vars

SpecStream == Init /\ [][NextStream]_vars

\* One detector as the unit tests drive it: ZScoreAnomalyDetector(
\* window_size=5, threshold=3.0) fed 1.0 and 10.0.

TestWindowSize == 5
TestThreshold == <<3, 0>>
TestSamples == {1, 10}
MaxTestCalls == 6

NextTests ==
    \/ Construct(1, TestWindowSize, TestThreshold) /\ UNCHANGED plot_vars
    \/ \E new_value \in TestSamples :
          Len(fed[1]) < MaxTestCalls /\ Detect(1, new_value) /\ UNCHANGED plot_vars

SpecTests == Init /\ [][NextTests]_vars

\* One detector with a window of eleven samples, through its warm-up.

MaxLong == 11

LongWindowSizes == {11}
LongThresholds == {<<1, -1>>, <<3, 0>>}    \* 0.5, 3.0
LongSamples == {1, 10}

NextLong ==
    \/ \E size \in LongWindowSizes, t \in LongThresholds :
          Construct(1, size, t) /\ UNCHANGED plot_vars
    \/ \E new_value \in LongSamples :
          Len(fed[1]) < MaxLong /\ Detect(1, new_value) /\ UNCHANGED plot_vars

SpecLong == Init /\ [][NextLong]_vars

\* One detector with thresholds at and above sqrt(window_size - 1).

MaxBoundCalls == 6

BoundWindowSizes == {1, 3, 5}
BoundThresholds == {<<3, -1>>, <<1, 1>>, <<3, 0>>}    \* 1.5, 2.0, 3.0
BoundSamples == {1, 6, 9}

NextBound ==
    \/ \E size \in BoundWindowSizes, t \in BoundThresholds :
          Construct(1, size, t) /\ UNCHANGED plot_vars
    \/ \E new_value \in BoundSamples :
          Len(fed[1]) < MaxBoundCalls /\ Detect(1, new_value) /\ UNCHANGED plot_vars

SpecBound == Init /\ [][NextBound]_vars

----------------------------------------------------------------------------
\* real_time_plot (src/visualization.py): the animation feeds the stream
\* to one detector, frame by frame.

\* The window size, 50 in the program, scaled to the least one with which
\* threshold 3.0 can be exceeded.
WINDOW_SIZE == 11

ANOMALY_THRESHOLD == <<3, 0>>    \* 3.0

\* The number of samples the generator yields, 1000 in the program.
STREAM_LENGTH == 12

\* frames=range(1000) in the program.
NumFrames == 12

\* What the generator may yield.
PlotSamples == {1, 10}

\* The frame after frame f: the animation runs through range(NumFrames)
\* and starts over.
NextFrame(f) == (f + 1) % NumFrames

\* A list that gains the item whatever detect returned.
AnomaliesAppendAlways(lst, is_anomaly, item) == Append(lst, item)

\* if is_anomaly: lst.append(item).
AnomaliesAppend(lst, is_anomaly, item) ==
    IF is_anomaly THEN Append(lst, item) ELSE lst

\* real_time_plot() up to the start of the animation: the generator and the
\* detector are created, the four lists are empty.
RealTimePlot ==
    /\ data_stream = "none"
    /\ data_stream' = "suspended"
    /\ yielded' = <<>>
    /\ Construct(1, WINDOW_SIZE, ANOMALY_THRESHOLD)
    /\ x_data' = <<>>
    /\ y_data' = <<>>
    /\ anomalies_x' = <<>>
    /\ anomalies_y' = <<>>
    /\ frame_seq' = 0

\* update(frame) while the generator has a sample left, new_value.
Update(new_value) ==
    /\ data_stream = "suspended"
    /\ Len(yielded) < STREAM_LENGTH
    /\ yielded' = Append(yielded, new_value)
    /\ x_data' = Append(x_data, frame_seq)
    /\ y_data' = Append(y_data, new_value)
    /\ Detect(1, new_value)
    /\ LET is_anomaly == outs'[1][Len(outs'[1])]
       IN  /\ anomalies_x' = AnomaliesAppend(anomalies_x, is_anomaly, frame_seq)
           /\ anomalies_y' = AnomaliesAppend(anomalies_y, is_anomaly, new_value)
    /\ frame_seq' = NextFrame(frame_seq)
    /\ UNCHANGED data_stream

\* update(frame) once the generator has yielded STREAM_LENGTH samples:
\* next(data_stream) raises StopIteration before anything is appended; the
\* animation takes it for the end of its frames and starts them over.
UpdateExhausted ==
    /\ data_stream = "suspended"
    /\ Len(yielded) = STREAM_LENGTH
    /\ data_stream' = "finished"
    /\ frame_seq' = 0
    /\ UNCHANGED <<status, window_size, threshold, maxlen, data_window, fed, outs>>
    /\ UNCHANGED <<yielded, x_data, y_data, anomalies_x, anomalies_y>>

NextPlot ==
    \/ RealTimePlot
    \/ \E new_value \in PlotSamples : Update(new_value)
    \/ UpdateExhausted

SpecPlot == Init /\ [][NextPlot]_vars

----------------------------------------------------------------------------
\* Vocabulary of the properties.

Live(i) == status[i] = "live"

Calls(i) == Len(fed[i])

LastOf(seq) == seq[Len(seq)]

Min(a, b) == IF a < b THEN a ELSE b

\* The last n elements of seq, oldest first.
LastN(seq, n) == SubSeq(seq, Len(seq) - n + 1, Len(seq))

AllEqual(win) == \A k \in 1..Len(win) : win[k] = win[1]

\* The window of detector i is full after a call.
FullAfterCall(i) ==
    /\ Live(i)
    /\ Calls(i) > 0
    /\ window_size[i] >= 1
    /\ Len(data_window[i]) = window_size[i]

\* a <= b on floats.
FlLeq(a, b) == ~FlLess(b, a)

Half == <<1, -1>>
One == <<1, 0>>
Three == <<3, 0>>

----------------------------------------------------------------------------
\* C1 (stated as the claim; the code violates it).  Spike detection: on a
\* fresh detector with window_size 5 and threshold 3.0, after five calls
\* detect(1.0) the sixth call detect(10.0) returns true.
C1_SpikeDetected ==
    \A i \in Detectors :
        ( /\ Live(i)
          /\ window_size[i] = 5
          /\ threshold[i] = Three
          /\ fed[i] = <<1, 1, 1, 1, 1, 10>> )
        => outs[i][6] = TRUE

\* C2 (stated as the claim; the code violates it).  Construction fails
\* whenever window_size < 1 or threshold <= 0 and succeeds otherwise, so
\* every detector that exists has window_size >= 1 and threshold > 0.
C2_InvalidConfigRejected ==
    \A i \in Detectors :
        status[i] # "none" =>
            ( status[i] = "live"
              <=> (window_size[i] >= 1 /\ FlLess(Zero, threshold[i])) )

\* C3.  Warm-up: for every window_size W >= 1, every threshold and every
\* sample sequence, each of the first W - 1 calls of detect returns false.
C3_WarmUp ==
    \A i \in Detectors :
        (Live(i) /\ window_size[i] >= 1) =>
            \A k \in 1..Len(outs[i]) : k < window_size[i] => outs[i][k] = FALSE

\* A detector of window_size 5 and threshold 1/2 has answered four calls
\* with three distinct samples.
C3_Witness ==
    \E i \in Detectors :
        /\ Live(i)
        /\ window_size[i] = 5
        /\ threshold[i] = Half
        /\ fed[i] = <<1, 26, 6, 26>>
        /\ Len(outs[i]) = 4

\* C4.  Bounded memory: after any number k >= W of detect calls the window
\* holds exactly W elements, the W most recently supplied samples, oldest
\* first.
C4_BoundedMemory ==
    \A i \in Detectors :
        (Live(i) /\ Calls(i) >= window_size[i]) =>
            /\ Len(data_window[i]) = window_size[i]
            /\ data_window[i] = LastN(fed[i], window_size[i])

\* A detector of window_size 3 has evicted three samples, not all equal.
C4_Witness ==
    \E i \in Detectors :
        /\ Live(i)
        /\ window_size[i] = 3
        /\ Calls(i) = 6
        /\ fed[i][1] # fed[i][4]
        /\ ~AllEqual(data_window[i])

\* The configuration of detector i is one the specification allows.
ValidConfig(i) == window_size[i] >= 1 /\ FlLess(Zero, threshold[i])

\* C5 (stated as the claim, for detectors of valid configuration; the code
\* violates it).  Zero-variance safety: whenever the window is full after
\* the append and all its elements are identical, detect returns false.
C5_ZeroVarianceSafe ==
    \A i \in Detectors :
        (FullAfterCall(i) /\ ValidConfig(i) /\ AllEqual(data_window[i]))
        => LastOf(outs[i]) = FALSE

----------------------------------------------------------------------------
\* The classification rule in exact integer arithmetic.

RECURSIVE SumOf(_)
SumOf(win) == IF win = <<>> THEN 0 ELSE win[1] + SumOf(Tail(win))

RECURSIVE SumSq(_)
SumSq(win) == IF win = <<>> THEN 0 ELSE win[1] * win[1] + SumSq(Tail(win))

\* The threshold m * 2^e as the fraction ThresholdNum / ThresholdDen.
ThresholdNum(t) == IF t[2] >= 0 THEN t[1] * Pow2(t[2]) ELSE t[1]

ThresholdDen(t) == IF t[2] >= 0 THEN 1 ELSE Pow2(-t[2])

\* (W * sample - S)^2, the square of W * (sample - mean).
DeviationSq(win, sample) ==
    (Len(win) * sample - SumOf(win)) * (Len(win) * sample - SumOf(win))

\* W * Q - S^2, the square of W * std_dev.
Spread(win) == Len(win) * SumSq(win) - SumOf(win) * SumOf(win)

\* abs(z) > threshold for the exact z = (sample - mean) / std_dev: the
\* threshold is negative, or z^2 > threshold^2.
ExactRule(win, sample, t) ==
    \/ t[1] < 0
    \/ DeviationSq(win, sample) * ThresholdDen(t) * ThresholdDen(t)
           > ThresholdNum(t) * ThresholdNum(t) * Spread(win)

\* The rule as the claim words it, with its factor W on the left.
ClaimedRule(win, sample, t) ==
    Len(win) * DeviationSq(win, sample) * ThresholdDen(t) * ThresholdDen(t)
        > ThresholdNum(t) * ThresholdNum(t) * Spread(win)

\* Whether an operation on floats rounds nowhere: whether its real result
\* is a float.

\* Whether the real number a * 2^k (plus a non-zero fraction of 2^k when
\* sticky) is a float, i.e. whether rounding it changes nothing.
Representable(a, sticky) ==
    /\ ~sticky
    /\ a = 0 \/ BitLen(Canon(a, 0)[1]) <= Prec

AddExact(a, b) ==
    \/ a = Zero
    \/ b = Zero
    \/ /\ IntAbs(Top(a) - Top(b)) <= Prec + 2
       /\ Representable(IntAbs(SumNumerator(a, b)), FALSE)

SubExact(a, b) == AddExact(a, FlNeg(b))

MulExact(a, b) == Representable(IntAbs(a[1]) * IntAbs(b[1]), FALSE)

DivExact(a, b) ==
    LET n == IntAbs(a[1]) * Pow2(DivScale)
        d == IntAbs(b[1])
    IN  a = Zero \/ Representable(n \div d, n % d # 0)

SqrtExact(a) ==
    LET t    == SqrtShift(a)
        M    == a[1] * Pow2(t)
        root == ISqrt(M)
    IN  a = Zero \/ Representable(root, root * root # M)

\* Whether the accumulation of xs from position i on, starting from acc,
\* rounds nowhere.
RECURSIVE SumExactFrom(_, _, _)
SumExactFrom(xs, acc, i) ==
    \/ i > Len(xs)
    \/ /\ AddExact(acc, xs[i])
       /\ SumExactFrom(xs, FlAdd(acc, xs[i]), i + 1)

\* Whether no floating-point operation of detect's computation over the
\* window rounds: every intermediate value is the exact real value.  For
\* windows of fewer than 8 samples, which are summed from left to right.
ComputationExact(win, new_value) ==
    LET xs       == AsArray(win)
        n        == FromInt(Len(win))
        total    == NpSum(xs)
        mean     == FlDiv(total, n)
        sq       == SquaredDeviations(xs, mean)
        sq_total == NpSum(sq)
        variance == FlDiv(sq_total, FromInt(StdDivisor(Len(win))))
        std_dev  == FlSqrt(variance)
    IN  /\ \A k \in 1..Len(win) : Representable(IntAbs(win[k]), FALSE)
        /\ Representable(Len(win), FALSE)
        /\ SumExactFrom(xs, Zero, 1)
        /\ DivExact(total, n)
        /\ \A k \in 1..Len(xs) :
              /\ SubExact(xs[k], mean)
              /\ MulExact(FlSub(xs[k], mean), FlSub(xs[k], mean))
        /\ SumExactFrom(sq, Zero, 1)
        /\ DivExact(sq_total, FromInt(StdDivisor(Len(win))))
        /\ SqrtExact(variance)
        /\ std_dev # Zero
        /\ DivExact(FlSub(FromInt(new_value), mean), std_dev)

\* A call has left the window of detector i full and not all-equal.
Classified(i) == FullAfterCall(i) /\ ~AllEqual(data_window[i])

\* C6 (as the claim words it, for detectors of valid configuration and
\* computations that round nowhere; the code violates it).  On any detect
\* call after which the window is full and not all-equal the result is true
\* iff W * (W * sample - S)^2 > threshold^2 * (W * Q - S^2).
C6_ClaimedRule ==
    \A i \in Detectors :
        ( /\ Classified(i)
          /\ ValidConfig(i)
          /\ ComputationExact(data_window[i], LastOf(fed[i])) )
        =>  ( LastOf(outs[i])
              <=> ClaimedRule(data_window[i], LastOf(fed[i]), threshold[i]) )

\* C6, amended.  On any detect call after which the window is full and not
\* all-equal, and in whose computation no floating-point operation rounds,
\* the result is true iff abs((sample - mean) / std_dev) > threshold,
\* strictly, for the mean and the population standard deviation of all W
\* elements of the window, the new sample included; that is, iff the
\* threshold is negative or (W * sample - S)^2 > threshold^2 * (W * Q - S^2).
C6_ClassificationRule ==
    \A i \in Detectors :
        (Classified(i) /\ ComputationExact(data_window[i], LastOf(fed[i]))) =>
            ( LastOf(outs[i])
              <=> ExactRule(data_window[i], LastOf(fed[i]), threshold[i]) )

\* An exactly computed z-score of 2 has been reported against threshold 1/2.
C6_Witness ==
    \E i \in Detectors :
        /\ Classified(i)
        /\ ComputationExact(data_window[i], LastOf(fed[i]))
        /\ data_window[i] = <<1, 1, 1, 1, 6>>
        /\ threshold[i] = Half
        /\ LastOf(outs[i]) = TRUE

----------------------------------------------------------------------------
\* C7.  Threshold monotonicity: of two detectors with the same window_size
\* fed the same samples, with thresholds t1 <= t2, every call that returns
\* false on the t1-detector returns false on the t2-detector.
C7_ThresholdMonotone ==
    \A i, j \in Detectors :
        ( /\ Live(i) /\ Live(j)
          /\ window_size[i] = window_size[j]
          /\ fed[i] = fed[j]
          /\ FlLeq(threshold[i], threshold[j]) )
        => \A k \in 1..Len(outs[i]) : outs[i][k] = FALSE => outs[j][k] = FALSE

\* Two detectors of window_size 2 with thresholds 1 < 3 have seen the same
\* samples 1, 10: the second call, of z-score 1, is false on the first
\* detector and false on the other.
C7_Witness ==
    \E i, j \in Detectors :
        /\ Live(i) /\ Live(j)
        /\ window_size[i] = 2 /\ window_size[j] = 2
        /\ threshold[i] = One /\ threshold[j] = Three
        /\ fed[i] = <<1, 10>> /\ fed[j] = <<1, 10>>
        /\ outs[i][2] = FALSE
        /\ outs[j][2] = FALSE

\* C8.  Determinism: two detectors constructed with the same window_size
\* and threshold and fed the same samples have returned the same booleans
\* and hold the same window.
C8_Deterministic ==
    \A i, j \in Detectors :
        ( /\ Live(i) /\ Live(j)
          /\ window_size[i] = window_size[j]
          /\ threshold[i] = threshold[j]
          /\ fed[i] = fed[j] )
        => (outs[i] = outs[j] /\ data_window[i] = data_window[j])

\* Two detectors of the same configuration have both been fed 1, 10 and
\* both reported the second call.
C8_Witness ==
    \E i, j \in Detectors :
        /\ i # j
        /\ Live(i) /\ Live(j)
        /\ window_size[i] = 2 /\ window_size[j] = 2
        /\ threshold[i] = Half /\ threshold[j] = Half
        /\ fed[i] = <<1, 10>> /\ fed[j] = <<1, 10>>
        /\ outs[i] = <<FALSE, TRUE>>

\* The window of a detector of the given maxlen run alone on the first k
\* of the samples.
RECURSIVE AloneWindow(_, _, _)
AloneWindow(cap, samples, k) ==
    IF k = 0 THEN <<>>
    ELSE DequeAppend(AloneWindow(cap, samples, k - 1), cap, samples[k])

\* The booleans a detector run alone on the samples returns.
AloneOuts(size, cap, t, samples) ==
    [k \in 1..Len(samples) |->
        Classify(AloneWindow(cap, samples, k), size, t, samples[k])]

\* A step that calls detect on one instance changes nothing of the others.
OthersUntouched ==
    \A i, j \in Detectors :
        (i # j /\ fed'[i] # fed[i]) =>
            /\ data_window'[j] = data_window[j]
            /\ window_size'[j] = window_size[j]
            /\ threshold'[j] = threshold[j]
            /\ maxlen'[j] = maxlen[j]
            /\ outs'[j] = outs[j]

\* Every instance is where it would be if run alone on its own samples.
AsIfAlone ==
    \A i \in Detectors :
        Live(i) =>
            /\ outs[i] = AloneOuts(window_size[i], maxlen[i], threshold[i], fed[i])
            /\ data_window[i] = AloneWindow(maxlen[i], fed[i], Calls(i))

\* C9.  Instance isolation: under arbitrarily interleaved detect calls on
\* two instances, a call on one leaves the other's window and configuration
\* unchanged, and each instance's outputs are those it would produce if run
\* alone on its own sample sequence.
C9_InstanceIsolation == [][OthersUntouched]_vars /\ []AsIfAlone

\* Two detectors have each answered two calls, on different samples, with
\* different answers.
C9_Witness ==
    /\ Live(1) /\ Live(2)
    /\ fed[1] = <<1, 10>>
    /\ fed[2] = <<10, 10>>
    /\ window_size[1] = 2 /\ window_size[2] = 2
    /\ threshold[1] = Half /\ threshold[2] = Half
    /\ outs[1] = <<FALSE, TRUE>>
    /\ outs[2] = <<FALSE, FALSE>>

\* C10 (stated as the claim; the code violates it).  Every detect call makes
\* the sample the newest window element, so that after k calls the window is
\* the last min(k, W) samples in insertion order and never longer than W.
C10_UnconditionalFifoAppend ==
    \A i \in Detectors :
        Live(i) =>
            /\ Len(data_window[i]) <= window_size[i]
            /\ data_window[i] = LastN(fed[i], Min(Calls(i), window_size[i]))
            /\ Calls(i) > 0 =>
                  /\ Len(data_window[i]) > 0
                  /\ LastOf(data_window[i]) = LastOf(fed[i])

----------------------------------------------------------------------------
\* Ten equal samples followed by a far-away one.
TenThenFar == <<1, 1, 1, 1, 1, 1, 1, 1, 1, 1, 10>>

\* C11.  Warm-up ends exactly at the W-th call: no call before the W-th
\* returns true; after the W-th call the window holds all W samples
\* supplied so far, the new one included, and that call is classified over
\* them, so that with window_size 11 and threshold 3 the eleventh call, of
\* a far-away sample after ten equal ones, returns true.
C11_WarmUpEndsAtW ==
    \A i \in Detectors :
        (Live(i) /\ window_size[i] >= 1) =>
            /\ \A k \in 1..Len(outs[i]) : outs[i][k] = TRUE => k >= window_size[i]
            /\ Calls(i) = window_size[i] => data_window[i] = fed[i]
            /\ ( /\ window_size[i] = 11
                 /\ threshold[i] = Three
                 /\ Calls(i) >= 11
                 /\ SubSeq(fed[i], 1, 11) = TenThenFar )
               => outs[i][11] = TRUE

\* A detector of window_size 11 and threshold 3 has returned false ten
\* times and true on its eleventh call.
C11_Witness ==
    \E i \in Detectors :
        /\ Live(i)
        /\ window_size[i] = 11
        /\ threshold[i] = Three
        /\ fed[i] = TenThenFar
        /\ data_window[i] = TenThenFar
        /\ \A k \in 1..10 : outs[i][k] = FALSE
        /\ outs[i][11] = TRUE

----------------------------------------------------------------------------
\* A step leaves the configuration of every constructed detector as it is.
ConfigurationKept ==
    \A i \in Detectors :
        Live(i) =>
            /\ status'[i] = "live"
            /\ window_size'[i] = window_size[i]
            /\ threshold'[i] = threshold[i]
            /\ maxlen'[i] = maxlen[i]

\* C12.  Configuration is fixed for the detector's lifetime: no detect
\* call, in any state and for any sample, changes window_size, threshold or
\* the capacity of the window of any constructed detector; of the
\* detector's attributes detect modifies the window contents only.
C12_ConfigurationFixed == [][ConfigurationKept]_vars

\* A detector constructed with window_size 2 and threshold 1/2 has answered
\* three calls, evicted a sample, and still has that configuration.
C12_Witness ==
    \E i \in Detectors :
        /\ Live(i)
        /\ fed[i] = <<1, 10, 1>>
        /\ data_window[i] = <<10, 1>>
        /\ window_size[i] = 2
        /\ maxlen[i] = 2
        /\ threshold[i] = Half

----------------------------------------------------------------------------
Two == <<1, 1>>

\* threshold^2 >= window_size - 1.
AtLeastBound(i) ==
    ThresholdNum(threshold[i]) * ThresholdNum(threshold[i])
        >= (window_size[i] - 1) * ThresholdDen(threshold[i]) * ThresholdDen(threshold[i])

NeverReported(i) == \A k \in 1..Len(outs[i]) : outs[i][k] = FALSE

----------------------------------------------------------------------------
\* The elements of data at the positions where flags is true, in order.
RECURSIVE Flagged(_, _)
Flagged(data, flags) ==
    IF data = <<>> THEN <<>>
    ELSE (IF Head(flags) THEN <<Head(data)>> ELSE <<>>)
             \o Flagged(Tail(data), Tail(flags))

\* A step that pulls from the stream pulls one sample, passes it to detect
\* and appends one entry to x_data and y_data, and appends (frame, value) to
\* the anomaly lists exactly if detect returned true; no other step touches
\* the lists.
OnePerCall ==
    IF yielded' # yielded
    THEN LET new_value  == yielded'[Len(yielded')]
             is_anomaly == outs'[1][Len(outs'[1])]
         IN  /\ yielded' = Append(yielded, new_value)
             /\ fed'[1] = Append(fed[1], new_value)
             /\ Len(outs'[1]) = Len(outs[1]) + 1
             /\ x_data' = Append(x_data, frame_seq)
             /\ y_data' = Append(y_data, new_value)
             /\ anomalies_x' = IF is_anomaly THEN Append(anomalies_x, frame_seq)
                               ELSE anomalies_x
             /\ anomalies_y' = IF is_anomaly THEN Append(anomalies_y, new_value)
                               ELSE anomalies_y
    ELSE data_stream # "none" =>
            UNCHANGED <<fed, outs, x_data, y_data, anomalies_x, anomalies_y>>

\* The samples went to detect and to y_data in stream order, and the
\* anomaly lists are the entries of the data lists at the calls for which
\* detect returned true.
Paired ==
    data_stream # "none" =>
        /\ fed[1] = yielded
        /\ y_data = yielded
        /\ Len(x_data) = Len(y_data)
        /\ Len(outs[1]) = Len(y_data)
        /\ anomalies_x = Flagged(x_data, outs[1])
        /\ anomalies_y = Flagged(y_data, outs[1])
        /\ Len(anomalies_x) = Len(anomalies_y)

\* C14.  Consumer pairing: in real_time_plot, while the generator has
\* samples left, each update call pulls exactly one sample and passes it to
\* detect exactly once in stream order, x_data and y_data gain exactly one
\* entry per call, and (frame, value) is appended to anomalies_x and
\* anomalies_y iff that call's detect returned true, so that the anomaly
\* lists are an order-preserving sub-sequence of the data lists, of equal
\* lengths.
C14_ConsumerPairing == [][OnePerCall]_vars /\ []Paired

\* Twelve frames have been drawn; exactly the eleventh, of value 10 after
\* ten values 1, was reported.
C14_Witness ==
    /\ data_stream = "suspended"
    /\ yielded = <<1, 1, 1, 1, 1, 1, 1, 1, 1, 1, 10, 1>>
    /\ x_data = <<0, 1, 2, 3, 4, 5, 6, 7, 8, 9, 10, 11>>
    /\ y_data = yielded
    /\ anomalies_x = <<10>>
    /\ anomalies_y = <<10>>

====
